---------------------------- MODULE Spec2Model ----------------------------
(***************************************************************************)
(* CubePickingRLEnv (sapien_env/rl_env/cube_picking_env.py): construction, *)
(* reset, step, reward, termination and observation layout.                *)
(*                                                                         *)
(* Lengths are integers in hundredths of a length unit (0.05 is 5, 0.65 is *)
(* 65, 0.3 is 30).  Rotations range over the identity and the half turns   *)
(* about the three axes, whose matrices and unit quaternions are integral. *)
(***************************************************************************)
EXTENDS Integers, Sequences, FiniteSets, TLC

VARIABLES envs

vars == <<envs>>

(* ------------------------------ bounds -------------------------------- *)

\* largest robot degree-of-freedom count tried at construction
MaxDof == 2

\* cap of current_step in the specifications that do not run to the horizon
MaxSteps == 2

\* longest init_states sequence a caller installs
MaxStates == 2

\* environment instances
Envs == {1, 2}

(* --------------------------- small helpers ---------------------------- *)

Min(a, b) == IF a < b THEN a ELSE b

Range(f) == {f[i] : i \in DOMAIN f}

VecSub(a, b) == [i \in 1..3 |-> a[i] - b[i]]

\* np.zeros(n)
Zeros(n) == [i \in 1..n |-> 0]

\* floor of the square root, for the perfect squares the rotations produce
Isqrt(n) == CHOOSE r \in 0..n : r * r <= n /\ (r + 1) * (r + 1) > n

\* the names of seq that satisfy ok, in seq's order
RECURSIVE SelectIdx(_, _, _)
SelectIdx(names, name, i) ==
    IF i > Len(names) THEN <<>>
    ELSE (IF names[i] = name THEN <<i>> ELSE <<>>) \o SelectIdx(names, name, i + 1)

(* ------------------------- robot variants ----------------------------- *)

FreeRobots == {"free_allegro"}
XArmRobots == {"xarm6"}
PandaRobots == {"panda"}
SupportedRobots == FreeRobots \cup XArmRobots \cup PandaRobots
RobotNames == SupportedRobots \cup {"ur5"}

\* info.palm_name of the variant's info record
PalmName(robot_name) ==
    IF robot_name \in PandaRobots THEN "panda_hand" ELSE "palm_center"

\* robot_info.arm_init_qpos: one nonzero value per joint it covers
ArmInitQpos(n) == [i \in 1..n |-> 1]

finger_tip_names == <<"panda_leftfinger", "panda_rightfinger">>

\* the link names a loaded robot may expose, in the robot's link order
LinkUniverse ==
    <<"palm_center", "link_15.0_tip", "panda_hand", "panda_leftfinger", "panda_rightfinger">>

RECURSIVE Filter(_, _, _)
Filter(names, keep, i) ==
    IF i > Len(names) THEN <<>>
    ELSE (IF names[i] \in keep THEN <<names[i]>> ELSE <<>>) \o Filter(names, keep, i + 1)

AllLinkLists == {Filter(LinkUniverse, S, 1) : S \in SUBSET Range(LinkUniverse)}

FullLinkLists == {LinkUniverse}

(* --------------------------- poses and frames -------------------------- *)

Identity_q == <<1, 0, 0, 0>>

\* a 4x4 rigid transform with diagonal rotation part d and translation t
MakeT(d, t) ==
    << <<d[1], 0, 0, t[1]>>,
       <<0, d[2], 0, t[2]>>,
       <<0, 0, d[3], t[3]>>,
       <<0, 0, 0, 1>> >>

\* rotation matrix -> unit quaternion (w, x, y, z), branching on the trace and
\* then on the largest diagonal entry
mat2quat(T) ==
    LET tr == T[1][1] + T[2][2] + T[3][3]
    IN  IF tr > 0
        THEN LET t == Isqrt(tr + 1)
             IN  << t \div 2,
                    (T[3][2] - T[2][3]) \div (2 * t),
                    (T[1][3] - T[3][1]) \div (2 * t),
                    (T[2][1] - T[1][2]) \div (2 * t) >>
        ELSE LET i0 == IF T[2][2] > T[1][1] THEN 2 ELSE 1
                 i  == IF T[3][3] > T[i0][i0] THEN 3 ELSE i0
                 j  == (i % 3) + 1
                 k  == (j % 3) + 1
                 t  == Isqrt(T[i][i] - T[j][j] - T[k][k] + 1)
                 w  == (T[k][j] - T[j][k]) \div (2 * t)
                 qv == [n \in 1..3 |->
                           IF n = i THEN t \div 2
                           ELSE IF n = j THEN (T[j][i] + T[i][j]) \div (2 * t)
                           ELSE (T[k][i] + T[i][k]) \div (2 * t)]
             IN  <<w, qv[1], qv[2], qv[3]>>

\* sapien.Pose.from_transformation_matrix
from_transformation_matrix(T) ==
    [p |-> <<T[1][4], T[2][4], T[3][4]>>, q |-> mat2quat(T)]

\* sapien.Pose.to_transformation_matrix
to_transformation_matrix(pose) ==
    LET w == pose.q[1]
        x == pose.q[2]
        y == pose.q[3]
        z == pose.q[4]
    IN  << <<1 - 2 * (y * y + z * z), 2 * (x * y - z * w), 2 * (x * z + y * w), pose.p[1]>>,
           <<2 * (x * y + z * w), 1 - 2 * (x * x + z * z), 2 * (y * z - x * w), pose.p[2]>>,
           <<2 * (x * z - y * w), 2 * (y * z + x * w), 1 - 2 * (x * x + y * y), pose.p[3]>>,
           <<0, 0, 0, 1>> >>

\* sapien.Pose(): origin, identity rotation
DefaultPose == [p |-> <<0, 0, 0>>, q |-> Identity_q]

\* the recorded transforms a caller may install
Transforms ==
    { MakeT(<<1, 1, 1>>, <<10, 0, 62>>),
      MakeT(<<-1, -1, 1>>, <<0, 10, 62>>) }

RECURSIVE SeqsUpTo(_, _)
SeqsUpTo(S, n) ==
    IF n = 0 THEN {<<>>}
    ELSE LET shorter == SeqsUpTo(S, n - 1)
         IN  shorter \cup {Append(sq, x) : sq \in shorter, x \in S}

\* the values a caller may give the init_states attribute
InitStatesChoices ==
    { [tag |-> "none", val |-> <<>>] }
    \cup { [tag |-> "set", val |-> sq] : sq \in SeqsUpTo(Transforms, MaxStates) \ {<<>>} }

(* ------------------------- the instance record ------------------------- *)

NoError == [kind |-> "none", name |-> ""]

Call(op) == [op |-> op, name |-> "", arg |-> <<>>]
CallName(op, name) == [op |-> op, name |-> name, arg |-> <<>>]
CallArg(op, arg) == [op |-> op, name |-> "", arg |-> arg]

\* an instance on which __init__ has not run
Unbuilt ==
    [ status |-> "unbuilt", error |-> NoError,
      robot_name |-> "", is_robot_free |-> FALSE, is_xarm |-> FALSE, is_panda |-> FALSE,
      link_names |-> <<>>, dof |-> 0, arm_dof |-> 0,
      use_visual_obs |-> FALSE, randomness_scale |-> 0,
      palm_link_name |-> "", palm_link |-> 0, finger_tip_links |-> <<>>,
      init_states |-> [tag |-> "absent", val |-> <<>>],
      current_step |-> 0,
      qpos |-> <<>>, drive_target |-> <<>>,
      cube |-> [p |-> <<0, 0, 0>>, q |-> Identity_q, v |-> <<0, 0, 0>>, w |-> <<0, 0, 0>>],
      palm_p |-> <<0, 0, 0>>,
      object_episode_init_pose |-> DefaultPose,
      obs_dim |-> [cached |-> FALSE, val |-> 0],
      calls |-> <<>>, last_op |-> "none",
      last_obs |-> <<>>, last_reward |-> 0, last_done |-> FALSE,
      pre_reset_step |-> 0, episode |-> 0 ]

(* ---------------------------- the scene -------------------------------- *)

\* what the physics engine may leave behind after stepping: the cube's pose and
\* velocities, the palm link's position, the value of every joint
Outcome(cp, cq, cv, pp, joint) ==
    [cube |-> [p |-> cp, q |-> cq, v |-> cv, w |-> <<0, 0, 0>>], palm_p |-> pp, joint |-> joint]

\* resting on the floor under the palm; lifted next to the palm and turned
SceneOutcomes ==
    { Outcome(<<0, 0, 30>>, Identity_q, <<0, 0, 0>>, <<0, 0, 60>>, 0),
      Outcome(<<3, 0, 70>>, <<0, 0, 0, 1>>, <<0, 0, 1>>, <<0, 0, 72>>, 1) }

\* the scene after the engine has stepped to outcome o
Stepped(s, o) ==
    [s EXCEPT !.cube = o.cube, !.palm_p = o.palm_p, !.qpos = [i \in 1..s.dof |-> o.joint]]

(* --------------------------- observations ------------------------------ *)

\* get_oracle_state, without the angular velocity
get_oracle_state_no_angular(s) ==
    LET cube_pose == [p |-> s.cube.p, q |-> s.cube.q]
    IN  s.qpos \o cube_pose.p \o cube_pose.q \o s.cube.v \o VecSub(cube_pose.p, s.palm_p)
           \o <<to_transformation_matrix(cube_pose)[3][3]>>

get_oracle_state(s) ==
    LET robot_qpos_vec == s.qpos
        cube_pose == [p |-> s.cube.p, q |-> s.cube.q]
        cube_pose_vec == cube_pose.p \o cube_pose.q
        linear_v == s.cube.v
        angular_v == s.cube.w
        cube_in_palm == VecSub(cube_pose.p, s.palm_p)
        theta_cos == to_transformation_matrix(cube_pose)[3][3]
    IN  robot_qpos_vec \o cube_pose_vec \o linear_v \o angular_v \o cube_in_palm \o <<theta_cos>>

get_robot_state(s) == s.qpos \o s.palm_p

\* BaseRLEnv.get_observation: the encoder selected by use_visual_obs
get_observation(s) ==
    IF s.use_visual_obs THEN get_robot_state(s) ELSE get_oracle_state(s)

\* the value the cached property computes on its first read
obs_dim(s) ==
    IF ~s.use_visual_obs THEN s.dof + 7 + 6 + 3 + 1 ELSE Len(get_robot_state(s))

(* ------------------------ reward and termination ----------------------- *)

xy_thresh == 5

z_thresh == 65

horizon == 10000

\* float(b)
Float(b) == IF b THEN 1 ELSE 0

\* NormLess, with the threshold itself accepted
NormLessEq(d, t) == d[1] * d[1] + d[2] * d[2] <= t * t

\* np.linalg.norm(d) < t, for t >= 0
NormLess(d, t) == d[1] * d[1] + d[2] * d[2] < t * t

get_reward(s, action) ==
    LET cube_p == s.cube.p
        palm_p == s.palm_p
        d == <<cube_p[1] - palm_p[1], cube_p[2] - palm_p[2]>>
        reward == NormLess(d, xy_thresh) /\ (cube_p[3] > z_thresh)
    IN  Float(reward)

\* is_done, true only once the counter has passed the horizon
is_done_after(s) == s.current_step > horizon

is_done(s) == s.current_step >= horizon

(* ----------------------------- construction ---------------------------- *)

\* the exceptions the constructor raises, under the names of the error taxonomy
UnsupportedRobotError == "NotImplementedError"
PalmLookupError == "IndexError"
FingerLookupError == "ValueError"

\* BaseRLEnv.setup: classify robot_name, load the robot; a fresh scene holds the
\* cube at the origin and the robot at rest
setup(robot_name, links, dof, arm_dof, use_visual_obs, randomness_scale) ==
    [Unbuilt EXCEPT
        !.robot_name = robot_name,
        !.is_robot_free = robot_name \in FreeRobots,
        !.is_xarm = robot_name \in XArmRobots,
        !.is_panda = robot_name \in PandaRobots,
        !.link_names = links, !.dof = dof, !.arm_dof = arm_dof,
        !.use_visual_obs = use_visual_obs, !.randomness_scale = randomness_scale,
        !.qpos = Zeros(dof), !.drive_target = Zeros(dof),
        !.calls = <<Call("setup")>>, !.last_op = "__init__"]

Raise(s, kind, name) ==
    [s EXCEPT !.status = "failed", !.error = [kind |-> kind, name |-> name]]

\* the first of names (from position i on) that links does not hold, or ""
RECURSIVE FirstMissing(_, _, _)
FirstMissing(names, links, i) ==
    IF i > Len(names) THEN ""
    ELSE IF names[i] \notin Range(links) THEN names[i]
    ELSE FirstMissing(names, links, i + 1)

\* robot_link_names.index(name)
Index(links, name) == SelectIdx(links, name, 1)[1]

\* lines 29-30: the palm link is the first link carrying info.palm_name
ResolvePalm(s) ==
    LET name == PalmName(s.robot_name)
        found == SelectIdx(s.link_names, name, 1)
        s1 == [s EXCEPT !.palm_link_name = name,
                        !.calls = Append(@, CallName("resolve_link", name))]
    IN  IF found = <<>> THEN Raise(s1, PalmLookupError, "")
        ELSE [s1 EXCEPT !.palm_link = found[1]]

\* lines 33-36: the finger tips, looked up by name in the robot's link names
ResolveFingerTips(s) ==
    LET missing == FirstMissing(finger_tip_names, s.link_names, 1)
        upto == IF missing = "" THEN Len(finger_tip_names)
                ELSE Index(finger_tip_names, missing)
        s1 == [s EXCEPT !.calls = @ \o [i \in 1..upto |->
                                          CallName("resolve_link", finger_tip_names[i])]]
    IN  IF missing # "" THEN Raise(s1, FingerLookupError, missing)
        ELSE [s1 EXCEPT !.finger_tip_links =
                  [i \in 1..Len(finger_tip_names) |-> Index(s.link_names, finger_tip_names[i])]]

\* ParseLinks, with the class check made after the palm link is looked up
ParseLinks_class_last(s) ==
    LET s1 == ResolvePalm(s)
    IN  IF ~(s.is_robot_free \/ s.is_xarm \/ s.is_panda)
        THEN Raise(s1, UnsupportedRobotError, "")
        ELSE IF s1.status = "failed" THEN s1 ELSE ResolveFingerTips(s1)

\* lines 20-36, after setup: the class check, then the link lookups
ParseLinks(s) ==
    IF ~(s.is_robot_free \/ s.is_xarm \/ s.is_panda)
    THEN Raise(s, UnsupportedRobotError, "")
    ELSE LET s1 == ResolvePalm(s)
         IN  IF s1.status = "failed" THEN s1 ELSE ResolveFingerTips(s1)

CubePickingRLEnv(robot_name, links, dof, arm_dof, use_visual_obs, randomness_scale) ==
    LET s0 == setup(robot_name, links, dof, arm_dof, use_visual_obs, randomness_scale)
        s1 == ParseLinks(s0)
    IN  IF s1.status = "failed" THEN s1
        ELSE [s1 EXCEPT !.status = "ready", !.object_episode_init_pose = DefaultPose]

(* -------------------------------- reset -------------------------------- *)

StabilizationSteps == 100

\* lines 93-113: the joint configuration and base pose of the variant
ConfigureRobot(s) ==
    IF s.is_xarm
    THEN LET arm_qpos == ArmInitQpos(s.arm_dof)
             qpos == [i \in 1..s.dof |-> IF i <= s.arm_dof THEN arm_qpos[i] ELSE 0]
         IN  [s EXCEPT !.qpos = qpos, !.drive_target = qpos,
                       !.calls = <<CallArg("robot.set_qpos", qpos),
                                   CallArg("robot.set_drive_target", qpos),
                                   CallName("robot.set_pose", "xarm")>>]
    ELSE IF s.is_panda
    THEN LET qpos == ArmInitQpos(s.dof)
         IN  [s EXCEPT !.qpos = qpos, !.drive_target = qpos,
                       !.calls = <<CallArg("robot.set_qpos", qpos),
                                   CallArg("robot.set_drive_target", qpos),
                                   CallName("robot.set_pose", "panda")>>]
    ELSE [s EXCEPT !.calls = <<CallName("robot.set_pose", "free")>>]

\* BaseRLEnv.reset_internal: a new episode has run no step
reset_internal(s) == [s EXCEPT !.current_step = 0]

\* lines 115-116
ResetBookkeeping(s) ==
    [reset_internal(s) EXCEPT !.calls = @ \o <<Call("reset_env"), Call("reset_internal")>>]

\* Stabilize, with every scene step counted as a step of the episode
Stabilize_counted(s, o) ==
    [Stepped(s, o) EXCEPT
        !.current_step = @ + StabilizationSteps,
        !.calls = @ \o [i \in 1..(2 * StabilizationSteps) |->
                          IF i % 2 = 1 THEN Call("robot.set_qf") ELSE Call("scene.step")]]

\* lines 119-121: the passive force, then one scene step, 100 times over; the
\* engine leaves the scene at outcome o
Stabilize(s, o) ==
    [Stepped(s, o) EXCEPT
        !.calls = @ \o [i \in 1..(2 * StabilizationSteps) |->
                          IF i % 2 = 1 THEN Call("robot.set_qf") ELSE Call("scene.step")]]

\* set_init, replaying the last transform of the sequence
set_init_last(s, init_states) ==
    LET cube_pose == from_transformation_matrix(init_states[Len(init_states)])
    IN  [s EXCEPT !.cube.p = cube_pose.p, !.cube.q = cube_pose.q,
                  !.object_episode_init_pose = cube_pose,
                  !.calls = Append(@, CallName("cube.set_pose", "init_states"))]

set_init(s, init_states) ==
    LET cube_pose == from_transformation_matrix(init_states[1])
    IN  [s EXCEPT !.cube.p = cube_pose.p, !.cube.q = cube_pose.q,
                  !.object_episode_init_pose = cube_pose,
                  !.calls = Append(@, CallName("cube.set_pose", "init_states"))]

\* lines 131-133
fixed_pose == [p |-> <<0, 0, 30>>, q |-> Identity_q]

\* PlaceObject, with the randomized placement in the branch without init_states
PlaceObject_random(s) ==
    IF s.init_states.tag = "set"
    THEN set_init(s, s.init_states.val)
    ELSE LET pose == [p |-> <<10 * s.randomness_scale, 0, 62>>, q |-> Identity_q]
         IN  [s EXCEPT !.object_episode_init_pose = pose,
                       !.cube.p = pose.p, !.cube.q = pose.q,
                       !.calls = @ \o <<Call("generate_random_init_pose"),
                                        CallName("cube.set_pose", "random_pose")>>]

\* PlaceObject, with the replayed transform giving the position only and the
\* cube keeping the rotation the stabilization left it with
PlaceObject_position_only(s) ==
    IF s.init_states.tag = "set"
    THEN LET cube_pose == [p |-> from_transformation_matrix(s.init_states.val[1]).p,
                           q |-> s.cube.q]
         IN  [s EXCEPT !.cube.p = cube_pose.p,
                       !.object_episode_init_pose = cube_pose,
                       !.calls = Append(@, CallName("cube.set_pose", "init_states"))]
    ELSE [s EXCEPT !.object_episode_init_pose = fixed_pose,
                   !.cube.p = fixed_pose.p, !.cube.q = fixed_pose.q,
                   !.calls = Append(@, CallName("cube.set_pose", "fixed_pose"))]

\* lines 123-135
PlaceObject(s) ==
    IF s.init_states.tag = "set"
    THEN set_init(s, s.init_states.val)
    ELSE [s EXCEPT !.object_episode_init_pose = fixed_pose,
                   !.cube.p = fixed_pose.p, !.cube.q = fixed_pose.q,
                   !.calls = Append(@, CallName("cube.set_pose", "fixed_pose"))]

\* line 137
ReturnObservation(s) ==
    [s EXCEPT !.last_obs = get_observation(s),
              !.calls = Append(@, Call("get_observation"))]

\* reset, with the cube placed before the stabilization
reset_place_first(s, seed, o) ==
    ReturnObservation(Stabilize(PlaceObject(ResetBookkeeping(ConfigureRobot(s))), o))

reset(s, seed, o) ==
    ReturnObservation(PlaceObject(Stabilize(ResetBookkeeping(ConfigureRobot(s)), o)))

(* -------------------------------- step --------------------------------- *)

\* BaseRLEnv.step: advance the scene, count the step, then observe, reward and
\* test for the end of the episode
step(s, action, o) ==
    LET s1 == [Stepped(s, o) EXCEPT !.current_step = @ + 1]
    IN  [s1 EXCEPT !.last_obs = get_observation(s1),
                   !.last_reward = get_reward(s1, action),
                   !.last_done = is_done(s1),
                   !.calls = <<Call("rl_step"), Call("get_observation"),
                               Call("get_reward"), Call("is_done")>>]

(* ------------------------------- actions ------------------------------- *)

Seeds == {0, 42}

Actions == {0, 1}

RandomnessScales == {0, 1}

\* the arm joints of a robot with dof joints: an arm with a hand has fewer
ArmDofs(robot_name, dof) == IF robot_name \in XArmRobots THEN 1..dof ELSE {dof}

Construct(e, names, linkLists, modes) ==
    /\ envs[e].status = "unbuilt"
    /\ \E robot_name \in names, links \in linkLists, dof \in 1..MaxDof,
          use_visual_obs \in modes, randomness_scale \in RandomnessScales :
          \E arm_dof \in ArmDofs(robot_name, dof) :
             envs' = [envs EXCEPT ![e] =
                 CubePickingRLEnv(robot_name, links, dof, arm_dof,
                                  use_visual_obs, randomness_scale)]

\* the evaluation runner assigns env.init_states; episode restarts the count of
\* the resets made under this assignment, and calls holds the calls of last_op
InstallInitStates(e, choices) ==
    /\ envs[e].status = "ready"
    /\ \E c \in choices :
          /\ c # envs[e].init_states
          /\ envs' = [envs EXCEPT ![e].init_states = c, ![e].episode = 0,
                                   ![e].last_op = "install", ![e].calls = <<>>]

\* pre_reset_step keeps the step counter reset() found; episode counts the
\* resets under the installed init_states, up to one past their number
Reset(e, seeds, outs) ==
    /\ envs[e].status = "ready"
    /\ \E seed \in seeds, o \in outs :
          envs' = [envs EXCEPT ![e] =
              [reset(envs[e], seed, o) EXCEPT
                  !.last_op = "reset",
                  !.pre_reset_step = envs[e].current_step,
                  !.episode = Min(@ + 1, Len(envs[e].init_states.val) + 1)]]

Step(e, cap, actions, outs) ==
    /\ envs[e].status = "ready"
    /\ envs[e].current_step < cap
    /\ \E action \in actions, o \in outs :
          envs' = [envs EXCEPT ![e] =
              [step(envs[e], action, o) EXCEPT !.last_op = "step", !.pre_reset_step = 0]]

\* the first read of the cached property computes it; later reads return it
ReadObsDim(e) ==
    /\ envs[e].status = "ready"
    /\ ~envs[e].obs_dim.cached
    /\ envs' = [envs EXCEPT ![e].obs_dim = [cached |-> TRUE, val |-> obs_dim(envs[e])]]

GetReward(e) ==
    /\ envs[e].status = "ready"
    /\ envs[e].last_op # "get_reward"
    /\ \E action \in Actions :
          envs' = [envs EXCEPT ![e].last_reward = get_reward(envs[e], action),
                               ![e].last_op = "get_reward"]

(* ---------------------------- specifications --------------------------- *)

\* one instance, from construction on
Init == envs = [e \in Envs |-> Unbuilt]

ConstructMain == Construct(1, RobotNames, FullLinkLists, {FALSE})
InstallMain == InstallInitStates(1, InitStatesChoices)
ResetMain == Reset(1, Seeds, SceneOutcomes)
StepMain == Step(1, MaxSteps, Actions, SceneOutcomes)

Next == ConstructMain \/ InstallMain \/ ResetMain \/ StepMain

Spec == Init /\ [][Next]_vars

\* construction over every link list a robot may expose
ConstructAny == Construct(1, RobotNames, AllLinkLists, {FALSE})

NextCtor == ConstructAny \/ ResetMain \/ StepMain

SpecCtor == Init /\ [][NextCtor]_vars

\* both observation modes, with reads of obs_dim between resets and steps
ConstructObs == Construct(1, SupportedRobots, FullLinkLists, BOOLEAN)
ReadObsDimMain == ReadObsDim(1)

NextObs == ConstructObs \/ ReadObsDimMain \/ ResetMain \/ StepMain

SpecObs == Init /\ [][NextObs]_vars

\* one instance of each variant, run past the horizon
Overrun == 1

Built(robot_name) == CubePickingRLEnv(robot_name, LinkUniverse, 1, 1, FALSE, 1)

InitHorizon ==
    \E robot_name \in SupportedRobots :
       envs = [e \in Envs |-> IF e = 1 THEN Built(robot_name) ELSE Unbuilt]

ResetHorizon == Reset(1, {0}, SceneOutcomes)
StepHorizon == Step(1, horizon + Overrun, {0}, SceneOutcomes)

NextHorizon == ResetHorizon \/ StepHorizon

SpecHorizon == InitHorizon /\ [][NextHorizon]_vars

\* two instances side by side
PairChoices == {c \in InitStatesChoices : Len(c.val) <= 1}

InitPair ==
    \E robot_name \in SupportedRobots :
       envs = [e \in Envs |-> IF e = 1 THEN Built("panda") ELSE Built(robot_name)]

InstallPair == \E e \in Envs : InstallInitStates(e, PairChoices)
ResetPair == \E e \in Envs : Reset(e, {42}, SceneOutcomes)
StepPair == \E e \in Envs : Step(e, 1, {0}, SceneOutcomes)

NextPair == InstallPair \/ ResetPair \/ StepPair

SpecPair == InitPair /\ [][NextPair]_vars

\* the reward evaluated over a grid of cube and palm positions
CubeGrid == {<<x, y, z>> : x \in {0, 3, 5}, y \in {0, 4, 5}, z \in {64, 65, 66}}

PalmGrid == {<<0, 0, 0>>, <<0, 1, 66>>}

RewardOutcomes == {Outcome(cp, Identity_q, <<0, 0, 0>>, pp, 0) : cp \in CubeGrid, pp \in PalmGrid}

InitReward ==
    \E o \in RewardOutcomes, action \in Actions :
       envs = [e \in Envs |->
                 IF e = 1
                 THEN [step(reset(Built("panda"), 0, o), action, o) EXCEPT !.last_op = "step"]
                 ELSE Unbuilt]

GetRewardMain == GetReward(1)

StepReward == Step(1, MaxSteps, Actions, RewardOutcomes)

NextReward == GetRewardMain \/ StepReward

SpecReward == InitReward /\ [][NextReward]_vars

(* ------------------------------- claims -------------------------------- *)

CubePose(s) == [p |-> s.cube.p, q |-> s.cube.q]

CountOp(calls, op) == Cardinality({i \in DOMAIN calls : calls[i].op = op})

\* C1: right after reset() returns, for every supported robot, the step counter
\* is 0 and is_done() is false, whatever number of steps the episode before had
\* run; the 100 scene steps of the stabilization ran and counted for nothing.
C1_ResetClearsStepCounter ==
    LET s == envs[1]
    IN  s.last_op = "reset" =>
           /\ s.current_step = 0
           /\ ~is_done(s)
           /\ CountOp(s.calls, "scene.step") = 100

\* reset() has returned on an xarm whose previous episode ran to the horizon
C1_Witness ==
    LET s == envs[1]
    IN  s.last_op = "reset" /\ s.is_xarm /\ s.pre_reset_step >= 10000

\* C2: is_done() is true exactly when the step counter has reached 10000; the
\* done flag a step returns is false for the counts 1..9999, whatever reward
\* came with it, and true from the 10000th step on.
C2_DoneExactlyAtHorizon ==
    LET s == envs[1]
    IN  /\ is_done(s) <=> s.current_step >= 10000
        /\ s.last_op = "step" => (s.last_done <=> s.current_step >= 10000)
        /\ (s.last_op = "step" /\ s.last_reward = 1 /\ s.current_step < 10000) => ~s.last_done

\* the 10000th step of an episode has returned done together with a reward of 1
C2_Witness ==
    LET s == envs[1]
    IN  s.last_op = "step" /\ s.current_step = 10000 /\ s.last_done /\ s.last_reward = 1

\* C3: the reward is 1 when the planar distance between cube and palm is below
\* 0.05 and the cube is higher than 0.65, both strictly, and 0 otherwise; it is
\* a function of these positions alone (not of the action, not of the palm's
\* height).
C3_RewardIffNearAndLifted ==
    LET s == envs[1]
        dx == s.cube.p[1] - s.palm_p[1]
        dy == s.cube.p[2] - s.palm_p[2]
    IN  s.last_op \in {"step", "get_reward"} =>
           /\ s.last_reward \in {0, 1}
           /\ s.last_reward = 1 <=> (dx * dx + dy * dy < 5 * 5 /\ s.cube.p[3] > 65)

\* get_reward has returned 0 for a lifted cube at a planar distance of exactly 0.05
C3_Witness ==
    LET s == envs[1]
        dx == s.cube.p[1] - s.palm_p[1]
        dy == s.cube.p[2] - s.palm_p[2]
    IN  /\ s.last_op = "get_reward"
        /\ dx * dx + dy * dy = 5 * 5
        /\ s.cube.p[3] > 65
        /\ s.last_reward = 0

C5_EntryOfCurrentEpisode ==
    LET s == envs[1]
    IN  (s.last_op = "reset" /\ s.init_states.tag = "set"
            /\ s.episode <= Len(s.init_states.val)) =>
           /\ to_transformation_matrix(CubePose(s)) = s.init_states.val[s.episode]
           /\ s.object_episode_init_pose = CubePose(s)

\* C5 as the code has it: every reset made under an installed sequence places
\* the cube at the first transform of the sequence, decoded without change, and
\* records that pose as object_episode_init_pose.
C5_FirstEntryReplayed ==
    LET s == envs[1]
    IN  (s.last_op = "reset" /\ s.init_states.tag = "set") =>
           /\ to_transformation_matrix(CubePose(s)) = s.init_states.val[1]
           /\ s.object_episode_init_pose = CubePose(s)

\* the second reset under a sequence of two different transforms
C5_Witness ==
    LET s == envs[1]
    IN  /\ s.last_op = "reset"
        /\ s.init_states.tag = "set"
        /\ Len(s.init_states.val) = 2
        /\ s.init_states.val[1] # s.init_states.val[2]
        /\ s.episode = 2

PoseOrConfigOps == {"robot.set_qpos", "robot.set_drive_target", "robot.set_pose",
                    "robot.set_qf", "cube.set_pose", "scene.step"}

\* C7: construction with a robot_name of none of the three classes fails with
\* UnsupportedRobotError before any link is resolved and before any pose or
\* configuration command is issued.
C7_UnsupportedRobotFailsEarly ==
    LET s == envs[1]
    IN  (s.status # "unbuilt" /\ s.robot_name \notin SupportedRobots) =>
           /\ s.status = "failed"
           /\ s.error.kind = UnsupportedRobotError
           /\ \A i \in DOMAIN s.calls :
                 s.calls[i].op # "resolve_link" /\ s.calls[i].op \notin PoseOrConfigOps
           /\ s.palm_link_name = "" /\ s.palm_link = 0 /\ s.finger_tip_links = <<>>

\* construction of an unsupported robot whose links would all have resolved
C7_Witness ==
    LET s == envs[1]
    IN  s.status = "failed" /\ s.robot_name = "ur5" /\ s.link_names = LinkUniverse

\* the finger tips of the variant's own hand
VariantFingerTips(robot_name) ==
    IF robot_name \in PandaRobots THEN {"panda_leftfinger", "panda_rightfinger"}
    ELSE {"link_15.0_tip"}

RequiredLinks(robot_name) == {PalmName(robot_name)} \cup VariantFingerTips(robot_name)

\* the link whose lookup raised: the palm for the palm lookup (whose exception
\* carries no name), the name the exception carries for a finger tip
FailedLink(s) ==
    IF s.error.kind = PalmLookupError THEN s.palm_link_name ELSE s.error.name

\* C8: construction of a supported variant succeeds when the robot's links hold
\* the names that variant requires, and otherwise fails with a link lookup
\* error for a link that the variant requires and the robot lacks.
C8_LinksResolvePerVariant ==
    LET s == envs[1]
    IN  (s.status # "unbuilt" /\ s.robot_name \in SupportedRobots) =>
           /\ RequiredLinks(s.robot_name) \subseteq Range(s.link_names) => s.status = "ready"
           /\ s.status = "failed" =>
                 /\ s.error.kind \in {PalmLookupError, FingerLookupError}
                 /\ FailedLink(s) \in RequiredLinks(s.robot_name) \ Range(s.link_names)

OracleBlocks(s) ==
    LET o == get_oracle_state(s)
        d == s.dof
    IN  /\ SubSeq(o, 1, d) = s.qpos
        /\ SubSeq(o, d + 1, d + 3) = s.cube.p
        /\ SubSeq(o, d + 4, d + 7) = s.cube.q
        /\ SubSeq(o, d + 8, d + 10) = s.cube.v
        /\ SubSeq(o, d + 11, d + 13) = s.cube.w
        /\ SubSeq(o, d + 14, d + 16) = VecSub(s.cube.p, s.palm_p)
        /\ o[d + 17] = to_transformation_matrix(CubePose(s))[3][3]

ObsDimMatchesEncoder ==
    LET s == envs[1]
    IN  s.obs_dim.cached =>
           IF s.use_visual_obs
           THEN /\ s.obs_dim.val = s.dof + 3
                /\ s.obs_dim.val = Len(get_robot_state(s))
           ELSE /\ s.obs_dim.val = s.dof + 7 + 6 + 3 + 1
                /\ s.obs_dim.val = Len(get_oracle_state(s))
                /\ OracleBlocks(s)

ObsDimKept == envs[1].obs_dim.cached => envs'[1].obs_dim = envs[1].obs_dim

\* C9: once read, obs_dim is the length of the vector the selected encoder
\* returns in every later state (dof + 17 with the six blocks in their order
\* for the oracle state, dof + 3 for the robot state), and no reset or step
\* changes it.
C9_ObsDimIsEncoderLength == []ObsDimMatchesEncoder /\ [][ObsDimKept]_vars

\* obs_dim was read in oracle mode and a step has moved the scene since
C9_Witness ==
    LET s == envs[1]
    IN  /\ s.obs_dim.cached /\ ~s.use_visual_obs
        /\ s.dof = MaxDof
        /\ s.last_op = "step"
        /\ Len(s.last_obs) = s.obs_dim.val

\* C10: the calls of one reset(), in order: the variant's configuration (xarm and
\* panda: set_qpos and set_drive_target with one and the same vector; free: none)
\* and base pose, reset_env, reset_internal, 100 times set_qf then scene.step,
\* the cube's pose, the observation.
C10_ResetOrder ==
    LET s == envs[1]
        c == s.calls
        k == IF s.is_robot_free THEN 1 ELSE 3
    IN  s.last_op = "reset" =>
           /\ Len(c) = k + 2 + 2 * 100 + 2
           /\ IF s.is_robot_free
              THEN CountOp(c, "robot.set_qpos") = 0 /\ CountOp(c, "robot.set_drive_target") = 0
              ELSE /\ c[1].op = "robot.set_qpos"
                   /\ c[2].op = "robot.set_drive_target"
                   /\ c[1].arg = c[2].arg /\ Len(c[1].arg) = s.dof
           /\ c[k].op = "robot.set_pose"
           /\ c[k + 1].op = "reset_env"
           /\ c[k + 2].op = "reset_internal"
           /\ \A i \in 1..100 :
                 c[k + 2 * i + 1].op = "robot.set_qf" /\ c[k + 2 * i + 2].op = "scene.step"
           /\ c[k + 203].op = "cube.set_pose"
           /\ c[k + 204].op = "get_observation"
           /\ CountOp(c, "scene.step") = 100
           /\ CountOp(c, "cube.set_pose") = 1

\* a free-floating robot has been reset
C10_Witness ==
    LET s == envs[1]
    IN  s.last_op = "reset" /\ s.is_robot_free /\ s.calls[1].op = "robot.set_pose"

====
